---------------------------- MODULE Spec2Model ----------------------------
(***************************************************************************)
(* The account store of BankofBrownBackend (dal.js) and the account routes *)
(* that call it (controllers/accountController.js).                        *)
(*                                                                         *)
(* The users collection is a sequence of documents in natural (insertion)  *)
(* order.  Every MongoDB call (insertOne, find, findOne, findOneAndUpdate) *)
(* is one atomic step on it; a handler that awaits two calls takes two     *)
(* steps, and other requests may run between them.  Code that runs between *)
(* two calls touches no shared state and belongs to the step of the call   *)
(* it follows.                                                             *)
(***************************************************************************)
EXTENDS Integers, Sequences, FiniteSets, TLC

VARIABLES
    users,    \* db.collection('users'): the documents, in natural order
    req,      \* per request slot: the call in progress, if any
    last,     \* the call the latest step ended: what it was given and gave
    ledger,   \* per email: net amount of the returned successful transfers
    tainted,  \* whether a balance was written by anything else
    db,       \* dal.js: let db, the handle connectToMongo keeps
    client,   \* dal.js: let client, the MongoClient connectToMongo keeps
    connects, \* number of invocations of MongoClient.connect so far
    conn,     \* per caller of connectToMongo: where it is, what it was given
    res,      \* the response object handed to errorHandler
    thrown,   \* the error handed to errorHandler, if any
    forwarded, \* the errors errorHandler has called next with
    guarded   \* per request slot: a request to the route behind authenticateToken

storeVars == <<users, req, last, ledger, tainted>>
connVars == <<db, client, connects, conn>>
errVars == <<res, thrown, forwarded>>
authVars == <<guarded>>

vars == <<users, req, last, ledger, tainted, db, client, connects, conn, res,
          thrown, forwarded, guarded>>

-----------------------------------------------------------------------------
(* Bounds of the model *)

NumProcs == 2       \* request slots (concurrent requests)
MaxUsers == 2       \* documents insertOne may put in the collection
MaxBalance == 2     \* |balance| that the explored deposits stay within
MaxConnects == 3    \* invocations of MongoClient.connect explored

Procs == 1..NumProcs
Emails == {"a@x.com", "b@x.com"}
Names == {"John", "Jane"}
Passwords == {"pw"}
Amounts == {0 - 1, 0, 1, 2}

-----------------------------------------------------------------------------
(* JavaScript and BSON values *)

null == [null |-> TRUE]        \* a missing document (result.value, findOne)
undefined == "undefined"       \* a body field that was not sent
bsonNull == "null"             \* what an undefined field is stored as
NoErr == ""                    \* no exception thrown
StoreFault == "MongoNetworkError"   \* the error of a store call that failed

\* The strings a JSON body gives for amount, and what parseFloat makes of them.
BodyAmounts == {"-1", "0", "1", "2.0"}

parseFloat(s) ==
    CASE s = "-1" -> 0 - 1
      [] s = "0" -> 0
      [] s = "1" -> 1
      [] s = "2.0" -> 2

\* bcrypt.hash(password, saltRounds, cb): err when there is no data to hash.
bcryptHash(password) ==
    IF password = undefined
    THEN [err |-> TRUE, hash |-> undefined]
    ELSE [err |-> FALSE, hash |-> "$2b$10$" \o password]

\* bcrypt.compare(password, hash, cb): err on missing arguments.
bcryptCompare(password, stored) ==
    IF password = undefined \/ stored = bsonNull
    THEN [err |-> TRUE, isMatch |-> FALSE]
    ELSE [err |-> FALSE, isMatch |-> (stored = "$2b$10$" \o password)]

\* BSON serialisation of a field value: undefined is written as null.
bson(v) == IF v = undefined THEN bsonNull ELSE v

-----------------------------------------------------------------------------
(* The MongoDB collection primitives used by dal.js *)

Matching(us, email) == {i \in DOMAIN us : us[i].email = email}

FirstMatch(us, email) ==
    CHOOSE i \in Matching(us, email) : \A j \in Matching(us, email) : i <= j

\* collection.findOne({ email })
dbFindOne(us, email) ==
    IF Matching(us, email) = {} THEN null ELSE us[FirstMatch(us, email)]

\* Mutant: the filter is dropped, every document is found.
dbFindEveryDocument(us, email) == us

\* collection.find({ email }).toArray()
dbFind(us, email) == SelectSeq(us, LAMBDA d : d.email = email)

\* Mutant: the document replaces the one with its email, if there is one.
dbInsertOneReplaces(us, doc) ==
    IF Matching(us, doc.email) = {}
    THEN [users |-> Append(us, doc), ops |-> <<doc>>]
    ELSE [users |-> [us EXCEPT ![FirstMatch(us, doc.email)] = doc],
          ops |-> <<doc>>]

\* collection.insertOne(doc); result.ops[0] is the inserted document
dbInsertOne(us, doc) == [users |-> Append(us, doc), ops |-> <<doc>>]

\* Mutant: the filter is dropped, every document is incremented.
dbIncEveryDocument(us, email, by) ==
    [users |-> [i \in DOMAIN us |-> [us[i] EXCEPT !.balance = @ + by]],
     value |-> IF Matching(us, email) = {} THEN null
               ELSE [us[FirstMatch(us, email)] EXCEPT !.balance = @ + by]]

\* findOneAndUpdate({ email }, { $inc: { balance: by } }, { returnDocument: 'after' })
dbFindOneAndInc(us, email, by) ==
    IF Matching(us, email) = {}
    THEN [users |-> us, value |-> null]
    ELSE LET i == FirstMatch(us, email)
             after == [us[i] EXCEPT !.balance = @ + by]
         IN [users |-> [us EXCEPT ![i] = after], value |-> after]

\* findOneAndUpdate({ email }, { $set: newData }, { returnDocument: 'after' })
dbFindOneAndSet(us, email, newData) ==
    IF Matching(us, email) = {}
    THEN [users |-> us, value |-> null]
    ELSE LET i == FirstMatch(us, email)
             after == [f \in DOMAIN us[i] |->
                          IF f \notin DOMAIN newData THEN us[i][f]
                          ELSE IF f = "balance" THEN newData[f]  \* a number
                          ELSE bson(newData[f])]
         IN [users |-> [us EXCEPT ![i] = after], value |-> after]

-----------------------------------------------------------------------------
(* dal.js: each function as its effect on the collection, the value it     *)
(* returns (ret) and the message of the Error it throws (err, NoErr if     *)
(* none).                                                                  *)

Outcome(us, ret, err) == [users |-> us, ret |-> ret, err |-> err]

create(us, name, email, password) ==
    LET doc == [name |-> bson(name), email |-> email,
                password |-> bson(password), balance |-> 0]
        result == dbInsertOne(us, doc)
    IN Outcome(result.users, result.ops[1], NoErr)

find(us, email) == Outcome(us, dbFind(us, email), NoErr)

\* Mutant: findOne hands back null instead of throwing.
findOneOrNull(us, email) == Outcome(us, dbFindOne(us, email), NoErr)

findOne(us, email) ==
    LET user == dbFindOne(us, email)
    IN IF user = null
       THEN Outcome(us, null, "User not found.")
       ELSE Outcome(us, user, NoErr)

update(us, email, newData) ==
    LET result == dbFindOneAndSet(us, email, newData)
    IN Outcome(result.users, result.value, NoErr)

\* Mutant: the document is returned as it was before the increment.
depositIncReturnsBefore(us, email, amount) ==
    [users |-> dbFindOneAndInc(us, email, amount).users,
     value |-> dbFindOne(us, email)]

\* Mutant: the update upserts, so a missing account is inserted.
depositIncUpserts(us, email, amount) ==
    IF Matching(us, email) # {} THEN dbFindOneAndInc(us, email, amount)
    ELSE LET doc == [name |-> bsonNull, email |-> email,
                     password |-> bsonNull, balance |-> amount]
         IN [users |-> Append(us, doc), value |-> doc]

\* deposit: the findOneAndUpdate, which runs before amount is checked.
depositInc(us, email, amount) == dbFindOneAndInc(us, email, amount)

deposit(us, email, amount) ==
    LET result == depositInc(us, email, amount)
    IN IF amount <= 0
       THEN Outcome(result.users, null, "Amount must be positive.")
       ELSE IF result.value = null
       THEN Outcome(result.users, null, "User not found.")
       ELSE Outcome(result.users, result.value, NoErr)

\* Mutant: a withdrawal of the whole balance is refused.
withdrawCheckStrict(us, email, amount) ==
    LET user == dbFindOne(us, email)
    IN IF amount <= 0
       THEN [user |-> user, err |-> "Amount must be positive."]
       ELSE IF user = null
       THEN [user |-> user, err |-> "User not found."]
       ELSE IF user.balance <= amount
       THEN [user |-> user, err |-> "Insufficient funds."]
       ELSE [user |-> user, err |-> NoErr]

\* withdraw up to its second await: the read and the three checks.
withdrawCheck(us, email, amount) ==
    LET user == dbFindOne(us, email)
    IN IF amount <= 0
       THEN [user |-> user, err |-> "Amount must be positive."]
       ELSE IF user = null
       THEN [user |-> user, err |-> "User not found."]
       ELSE IF user.balance < amount
       THEN [user |-> user, err |-> "Insufficient funds."]
       ELSE [user |-> user, err |-> NoErr]

\* Mutant: the new balance is computed from the document read earlier and
\* written back.
withdrawIncFromSnapshot(us, user, email, amount) ==
    LET result == dbFindOneAndInc(us, email, user.balance - amount
                                     - dbFindOne(us, email).balance)
    IN Outcome(result.users, result.value, NoErr)

\* withdraw from its second await on: the decrement, on the collection as
\* it is by then.
withdrawInc(us, user, email, amount) ==
    LET result == dbFindOneAndInc(us, email, 0 - amount)
    IN Outcome(result.users, result.value, NoErr)

all(us) == Outcome(us, us, NoErr)

-----------------------------------------------------------------------------
(* controllers/accountController.js: each handler that awaits one store    *)
(* call, as its effect on the collection, the status and JSON body it      *)
(* sends, and the message of the error its catch block logged.             *)

Response(us, status, body, err) ==
    [users |-> us, status |-> status, body |-> body, err |-> err]

InternalError(us, err) ==
    Response(us, 500, [message |-> "Internal server error"], err)

NotFound(us, message) == Response(us, 404, [message |-> message], NoErr)

\* Mutant: one account with the email is not yet a duplicate.
alreadyExistsTwice(us, email) == Len(find(us, email).ret) > 1

\* POST /create: users.length > 0 after dal.find(email).
alreadyExists(us, email) == Len(find(us, email).ret) > 0

postLogin(us, email, password) ==
    LET r == find(us, email)
    IN IF Len(r.ret) = 0
       THEN NotFound(r.users, "User not found")
       ELSE LET user == r.ret[1]
                c == bcryptCompare(password, user.password)
            IN IF c.err \/ ~c.isMatch
               THEN Response(r.users, 401, [message |-> "Authentication failed"], NoErr)
               ELSE Response(r.users, 200,
                             [message |-> "Login successful",
                              user |-> [email |-> user.email, name |-> user.name]],
                             NoErr)

postFind(us, email) ==
    LET r == find(us, email)
    IN IF Len(r.ret) = 0
       THEN NotFound(r.users, "User not found")
       ELSE Response(r.users, 200, r.ret, NoErr)

postFindOne(us, email) ==
    LET r == findOne(us, email)
    IN IF r.err # NoErr THEN InternalError(r.users, r.err)
       ELSE IF r.ret = null THEN NotFound(r.users, "User not found")
       ELSE Response(r.users, 200, r.ret, NoErr)

postUpdate(us, email, name, password) ==
    LET r == update(us, email, [name |-> name, password |-> password])
    IN IF r.ret = null
       THEN NotFound(r.users, "User not found")
       ELSE Response(r.users, 200,
                     [message |-> "User information updated successfully",
                      user |-> r.ret], NoErr)

postDeposit(us, email, amount) ==
    LET r == deposit(us, email, parseFloat(amount))
    IN IF r.err # NoErr THEN InternalError(r.users, r.err)
       ELSE IF r.ret = null
       THEN NotFound(r.users, "User not found or deposit failed")
       ELSE Response(r.users, 200,
                     [message |-> "Deposit successful", balance |-> r.ret.balance],
                     NoErr)

\* POST /withdraw once dal.withdraw has returned or thrown.
postWithdrawEnd(r) ==
    IF r.err # NoErr THEN InternalError(r.users, r.err)
    ELSE IF r.ret = null
    THEN NotFound(r.users, "User not found or insufficient funds")
    ELSE Response(r.users, 200,
                  [message |-> "Withdrawal successful", balance |-> r.ret.balance],
                  NoErr)

getAll(us) ==
    LET r == all(us)
    IN Response(r.users, 200, r.ret, NoErr)

-----------------------------------------------------------------------------
(* Request slots *)

NoArgs == [email |-> ""]

\* A slot with no call in progress.
Idle == [op |-> "none", pc |-> "idle", args |-> NoArgs, user |-> null]

Free(p) == req[p].pc = "idle"

\* The slot of a call that awaits its second store call; user is what its
\* first one read.
Awaiting(op, pc, args, user) ==
    [op |-> op, pc |-> pc, args |-> args, user |-> user]

\* The record of the call that the latest step ended, by a return, a throw
\* or an answer: pre and post are its account (the first document with its
\* email) before its first step and after its last, added the number of
\* documents its last step added, same whether that step left the
\* collection as it was.  No first step of two writes to the collection.
\* The record is kept unless it is switched off from the start.
Off == [op |-> "off"]

Ended(op, args, ret, err, status, pre, us) ==
    IF last = Off THEN Off
    ELSE [op |-> op, args |-> args, ret |-> ret, err |-> err,
          status |-> status, pre |-> pre, post |-> dbFindOne(us, args.email),
          added |-> Len(us) - Len(users), same |-> (us = users)]

NoCall ==
    [op |-> "none", args |-> NoArgs, ret |-> null, err |-> NoErr, status |-> 0,
     pre |-> null, post |-> null, added |-> 0, same |-> TRUE]

\* A step that ends no call: the first store call of two.
EndsNone == last' = IF last = Off THEN Off ELSE NoCall

\* A store function called directly, done in one step with outcome o.
Returns(p, op, args, o) ==
    /\ users' = o.users
    /\ last' = Ended(op, args, o.ret, o.err, 0, dbFindOne(users, args.email),
                     o.users)
    /\ UNCHANGED req

\* A route answered in one step with response r.
Answers(p, op, args, r) ==
    /\ users' = r.users
    /\ last' = Ended(op, args, r.body, r.err, r.status,
                     dbFindOne(users, args.email), r.users)
    /\ UNCHANGED req

\* The deposits explored keep every balance within the bound, and stop at
\* the first negative one.
IncInRange(email, by) ==
    dbFindOne(users, email) # null =>
        LET b == dbFindOne(users, email).balance
        IN (by < 0 => b >= 0) /\ b + by <= MaxBalance

\* insertOne is explored while the collection, with the inserts still to
\* come from requests that passed the duplicate check, has room.
HasRoom ==
    Len(users) + Cardinality({q \in Procs : req[q].pc = "hashing"}) < MaxUsers

\* The ledger: the transfers with a positive amount that returned
\* successfully, per email.  Any other write to a balance (a transfer of an
\* amount that is not positive, an update of the field) taints the ledger,
\* which is void from then on and kept at 0.
Taint ==
    /\ tainted' = TRUE
    /\ ledger' = [e \in Emails |-> 0]

Credit(email, amount, ok) ==
    IF amount <= 0 THEN Taint
    ELSE /\ ledger' = IF ok /\ ~tainted
                      THEN [ledger EXCEPT ![email] = @ + amount]
                      ELSE ledger
         /\ UNCHANGED tainted

Debit(email, amount, ok) ==
    IF amount <= 0 THEN Taint
    ELSE /\ ledger' = IF ok /\ ~tainted
                      THEN [ledger EXCEPT ![email] = @ - amount]
                      ELSE ledger
         /\ UNCHANGED tainted

\* The objects update is called with directly.
NewDatas ==
    {[name |-> n] : n \in Names}
        \cup {[name |-> "Jane", password |-> "pw"], [balance |-> 1]}

-----------------------------------------------------------------------------
(* dal.js: the connection kept by connectToMongo *)

unassigned == [undefined |-> TRUE]    \* let db; let client;

\* The client that the k-th call of MongoClient.connect resolves to.
MongoClient(k) == [client |-> k]

\* client.db(defaultDbName)
Db(c) == [db |-> "DB_NAME", client |-> c.client]

\* A caller of connectToMongo: not calling, awaiting the k-th
\* MongoClient.connect, returned with { db, client }, or thrown.
NotCalling == [pc |-> "idle", k |-> 0, ret |-> null]
Connecting(k) == [pc |-> "connecting", k |-> k, ret |-> null]
Returned(k, d, c) == [pc |-> "returned", k |-> k, ret |-> [db |-> d, client |-> c]]
Thrown(k) == [pc |-> "thrown", k |-> k, ret |-> null]

\* connectToMongo up to its await: the handle is returned if there is one,
\* MongoClient.connect is invoked if there is none.
ConnectToMongo(p) ==
    /\ conn[p].pc # "connecting"
    /\ IF db # unassigned
       THEN /\ conn' = [conn EXCEPT ![p] = Returned(0, db, client)]
            /\ UNCHANGED connects
       ELSE /\ connects < MaxConnects
            /\ connects' = connects + 1
            /\ conn' = [conn EXCEPT ![p] = Connecting(connects + 1)]
    /\ UNCHANGED <<db, client>>

\* connectToMongo after its await: client and db are assigned and returned.
MongoConnected(p) ==
    /\ conn[p].pc = "connecting"
    /\ client' = MongoClient(conn[p].k)
    /\ db' = Db(client')
    /\ conn' = [conn EXCEPT ![p] = Returned(conn[p].k, db', client')]
    /\ UNCHANGED connects

\* connectToMongo when MongoClient.connect rejects: the error is rethrown.
MongoConnectFails(p) ==
    /\ conn[p].pc = "connecting"
    /\ conn' = [conn EXCEPT ![p] = Thrown(conn[p].k)]
    /\ UNCHANGED <<db, client, connects>>

-----------------------------------------------------------------------------
(* middlewares/errorMiddleware.js *)

ValidationError(message) ==
    [name |-> "ValidationError", message |-> message, statusCode |-> 400]

NotFoundError(message) ==
    [name |-> "NotFoundError", message |-> message, statusCode |-> 404]

\* new Error(message), new TypeError(message): no statusCode.
Error(message) == [name |-> "Error", message |-> message]

TypeError(message) == [name |-> "TypeError", message |-> message]

\* What bodyParser.json() raises on a malformed body: a SyntaxError that
\* carries statusCode 400.
BodyParseError(message) ==
    [name |-> "SyntaxError", message |-> message, statusCode |-> 400]

ErrMessages ==
    {"Validation error message", "Not found error message", "Some other error"}

Errors ==
    UNION {{ValidationError(m), NotFoundError(m), Error(m), TypeError(m),
            BodyParseError(m)} : m \in ErrMessages}

NodeEnvs == {"development", "production"}

\* err.stack
stack(err) == err.name \o ": " \o err.message \o "\n    at ..."

\* res.status(code)
status(rs, code) == [rs EXCEPT !.statusCode = code]

\* res.json(body): the response is sent.
json(rs, body) ==
    [rs EXCEPT !.body = body, !.headersSent = TRUE, !.sends = @ + 1]

\* const statusCode = err.statusCode || 500
statusCode(err) ==
    IF "statusCode" \in DOMAIN err /\ err.statusCode # 0
    THEN err.statusCode
    ELSE 500

\* const errorResponse, with process.env.NODE_ENV = nodeEnv
errorResponse(err, nodeEnv) ==
    [error |->
        IF nodeEnv = "development"
        THEN [name |-> err.name, message |-> err.message, stack |-> stack(err)]
        ELSE [name |-> err.name, message |-> err.message]]

\* Mutant: the error is forwarded after it has been answered, too.
errorHandlerAlwaysForwards(err, nodeEnv, rs) ==
    IF rs.headersSent
    THEN [res |-> rs, next |-> <<err>>]
    ELSE [res |-> json(status(rs, statusCode(err)), errorResponse(err, nodeEnv)),
          next |-> <<err>>]

\* errorHandler(err, req, res, next): the response as it leaves it and the
\* arguments of its calls of next.
errorHandler(err, nodeEnv, rs) ==
    IF rs.headersSent
    THEN [res |-> rs, next |-> <<err>>]
    ELSE [res |-> json(status(rs, statusCode(err)), errorResponse(err, nodeEnv)),
          next |-> <<>>]

\* An error reaches the error handling middleware, before or after the
\* route that raised it began to respond.
RouteThrows ==
    /\ thrown = null
    /\ \E err \in Errors, nodeEnv \in NodeEnvs, sent \in BOOLEAN :
          /\ res' = IF sent THEN json(res, [message |-> "Login successful"])
                            ELSE res
          /\ thrown' = [err |-> err, env |-> nodeEnv, res |-> res',
                        handled |-> FALSE]
    /\ UNCHANGED forwarded

ErrorHandler ==
    /\ thrown # null
    /\ ~thrown.handled
    /\ LET o == errorHandler(thrown.err, thrown.env, res)
       IN /\ res' = o.res
          /\ forwarded' = forwarded \o o.next
    /\ thrown' = [thrown EXCEPT !.handled = TRUE]

-----------------------------------------------------------------------------
(* middlewares/authMiddleware.js, middlewares/validationMiddleware.js and   *)
(* the route they guard, GET /secure-data (controllers/userController.js)   *)

secretKey == "JWT_SECRET_KEY"      \* process.env.JWT_SECRET_KEY
OtherKey == "another key"          \* the key of a forged token

\* jwt.sign({ email }, key, { expiresIn: '1h' }), read now or after the hour.
jwtSign(email, key, expired) ==
    key \o "." \o email \o (IF expired THEN ".expired" ELSE ".fresh")

Tokens ==
    {jwtSign(e, k, x) : e \in Emails, k \in {secretKey, OtherKey}, x \in BOOLEAN}
        \cup {"", "garbage"}

\* jwt.verify(token, key, cb): what cb is called with.
jwtVerify(token, key) ==
    IF \E e \in Emails : token = jwtSign(e, key, FALSE)
    THEN [err |-> FALSE,
          user |-> [email |-> CHOOSE e \in Emails : token = jwtSign(e, key, FALSE)]]
    ELSE [err |-> TRUE, user |-> unassigned]

\* The Authorization headers of the requests: none, a scheme alone, a bearer
\* token, a token without a scheme, another scheme.
AuthHeaders ==
    {undefined, "Bearer"} \cup {"Bearer " \o t : t \in Tokens}
        \cup {jwtSign("a@x.com", secretKey, FALSE),
              "Basic " \o jwtSign("a@x.com", secretKey, FALSE)}

\* authHeader.split(' ')
split(authHeader) ==
    IF \E t \in Tokens : authHeader = "Bearer " \o t
    THEN <<"Bearer", CHOOSE t \in Tokens : authHeader = "Bearer " \o t>>
    ELSE IF \E t \in Tokens : authHeader = "Basic " \o t
    THEN <<"Basic", CHOOSE t \in Tokens : authHeader = "Basic " \o t>>
    ELSE <<authHeader>>

\* const token = authHeader && authHeader.split(' ')[1]
bearerToken(authHeader) ==
    IF authHeader = undefined THEN undefined
    ELSE IF Len(split(authHeader)) < 2 THEN undefined
    ELSE split(authHeader)[2]

\* !token
falsy(token) == token = undefined \/ token = ""

\* The bodies of the requests: both required fields, one, none.
Bodies ==
    {[email |-> "a@x.com", password |-> "pw"], [email |-> "a@x.com"],
     [password |-> "pw"], [name |-> "John"]}

\* validateUser: the required fields that are missing.
missingFields(body) == {f \in {"email", "password"} : f \notin DOMAIN body}

\* `Missing required fields: ${missingFieldsList}`
missingFieldsMessage(body) ==
    "Missing required fields: "
        \o (IF missingFields(body) = {"email", "password"} THEN "email, password"
            ELSE IF missingFields(body) = {"email"} THEN "email"
            ELSE "password")

\* A slot with no request to the guarded route, and a request as it arrives:
\* its Authorization header, its body, req.user, its response, the calls of
\* next made by authenticateToken, whether the route handler has run.
NoRequest == [pc |-> "idle"]

Arrived(authorization, body) ==
    [pc |-> "validateUser", authorization |-> authorization, body |-> body,
     user |-> unassigned,
     res |-> [headersSent |-> FALSE, statusCode |-> 200, body |-> null, sends |-> 0],
     nexts |-> 0, ran |-> FALSE]

\* res.status(code).json({ message }), which ends the request.
answer(g, code, message) ==
    [g EXCEPT !.res = json(status(@, code), [message |-> message]),
              !.pc = "done"]

validateUser(g) ==
    IF missingFields(g.body) # {}
    THEN answer(g, 400, missingFieldsMessage(g.body))
    ELSE [g EXCEPT !.pc = "authenticateToken"]

\* authenticateToken up to the call of jwt.verify.
authenticateToken(g) ==
    IF falsy(bearerToken(g.authorization))
    THEN answer(g, 401, "Token not provided.")
    ELSE [g EXCEPT !.pc = "jwt.verify"]

\* Mutant: the return is missing, the request goes on after the 401.
verifiedFallsThrough(g, err, user) ==
    IF err
    THEN [answer(g, 401, "Invalid token.") EXCEPT !.nexts = @ + 1,
                                                   !.pc = "handler"]
    ELSE [g EXCEPT !.user = user, !.nexts = @ + 1, !.pc = "handler"]

\* The callback given to jwt.verify: (err, user) => { ... }
verified(g, err, user) ==
    IF err
    THEN answer(g, 401, "Invalid token.")
    ELSE [g EXCEPT !.user = user, !.nexts = @ + 1, !.pc = "handler"]

\* The route handler: res.json({ message: 'Secure data' })
secureData(g) ==
    [answer(g, g.res.statusCode, "Secure data") EXCEPT !.ran = TRUE]

\* GET /secure-data arrives and validateUser, the first middleware, runs.
GetSecureData(p) ==
    /\ guarded[p] = NoRequest
    /\ \E authorization \in AuthHeaders, body \in Bodies :
          guarded' = [guarded EXCEPT ![p] = validateUser(Arrived(authorization, body))]

AuthenticateToken(p) ==
    /\ guarded[p].pc = "authenticateToken"
    /\ guarded' = [guarded EXCEPT ![p] = authenticateToken(guarded[p])]

JwtVerified(p) ==
    /\ guarded[p].pc = "jwt.verify"
    /\ LET r == jwtVerify(bearerToken(guarded[p].authorization), secretKey)
       IN guarded' = [guarded EXCEPT ![p] = verified(guarded[p], r.err, r.user)]

SecureData(p) ==
    /\ guarded[p].pc = "handler"
    /\ guarded' = [guarded EXCEPT ![p] = secureData(guarded[p])]

-----------------------------------------------------------------------------
(* Initial state: an empty collection (test/dal.test.js beforeEach), no    *)
(* request.                                                                *)

Start ==
    /\ users = <<>>
    /\ req = [p \in Procs |-> Idle]
    /\ ledger = [e \in Emails |-> 0]
    /\ tainted = FALSE
    /\ db = unassigned
    /\ client = unassigned
    /\ connects = 0
    /\ conn = [p \in Procs |-> NotCalling]
    /\ res = [headersSent |-> FALSE, statusCode |-> 200, body |-> null, sends |-> 0]
    /\ thrown = null
    /\ forwarded = <<>>
    /\ guarded = [p \in Procs |-> NoRequest]

Init == Start /\ last = Off

InitSeq == Start /\ last = NoCall

-----------------------------------------------------------------------------
(* The store functions called directly, as test/dal.test.js calls them *)

DalCreate(p) ==
    /\ Free(p)
    /\ HasRoom
    /\ \E name \in Names, email \in Emails, password \in Passwords :
          Returns(p, "create",
                  [email |-> email, name |-> name, password |-> password],
                  create(users, name, email, password))
    /\ UNCHANGED <<ledger, tainted>>

DalFind(p) ==
    /\ Free(p)
    /\ \E email \in Emails :
          Returns(p, "find", [email |-> email], find(users, email))
    /\ UNCHANGED <<ledger, tainted>>

DalFindOne(p) ==
    /\ Free(p)
    /\ \E email \in Emails :
          Returns(p, "findOne", [email |-> email], findOne(users, email))
    /\ UNCHANGED <<ledger, tainted>>

DalUpdate(p) ==
    /\ Free(p)
    /\ \E email \in Emails, newData \in NewDatas :
          /\ Returns(p, "update", [email |-> email, newData |-> newData],
                     update(users, email, newData))
          /\ IF "balance" \in DOMAIN newData
             THEN Taint
             ELSE UNCHANGED <<ledger, tainted>>

DalDeposit(p) ==
    /\ Free(p)
    /\ \E email \in Emails, amount \in Amounts :
          LET o == deposit(users, email, amount)
          IN /\ IncInRange(email, amount)
             /\ Returns(p, "deposit", [email |-> email, amount |-> amount], o)
             /\ Credit(email, amount, o.err = NoErr)

\* withdraw: findOne and the checks; it throws here or goes on to the
\* decrement.
WithdrawBegin(p, op, email, amount) ==
    LET c == withdrawCheck(users, email, amount)
        args == [email |-> email, amount |-> amount]
    IN /\ IF c.err # NoErr
          THEN /\ last' = IF op = "withdraw"
                          THEN Ended(op, args, null, c.err, 0, c.user, users)
                          ELSE LET r == postWithdrawEnd(Outcome(users, null, c.err))
                               IN Ended(op, args, r.body, r.err, r.status, c.user,
                                        users)
               /\ UNCHANGED req
          ELSE /\ req' = [req EXCEPT ![p] = Awaiting(op, "checked", args, c.user)]
               /\ EndsNone
       /\ Debit(email, amount, FALSE)
       /\ UNCHANGED users

\* withdraw: the findOneAndUpdate that decrements, and the return.
WithdrawEnd(p, op) ==
    LET a == req[p].args
        o == withdrawInc(users, req[p].user, a.email, a.amount)
    IN /\ req[p].pc = "checked"
       /\ req[p].op = op
       /\ users' = o.users
       /\ req' = [req EXCEPT ![p] = Idle]
       /\ last' = IF op = "withdraw"
                  THEN Ended(op, a, o.ret, o.err, 0, req[p].user, o.users)
                  ELSE LET r == postWithdrawEnd(o)
                       IN Ended(op, a, r.body, r.err, r.status, req[p].user,
                                o.users)
       /\ Debit(a.email, a.amount, o.err = NoErr)

DalWithdraw(p) ==
    /\ Free(p)
    /\ \E email \in Emails, amount \in Amounts :
          WithdrawBegin(p, "withdraw", email, amount)

DalWithdrawInc(p) == WithdrawEnd(p, "withdraw")

DalAll(p) ==
    /\ Free(p)
    /\ Returns(p, "all", NoArgs, all(users))
    /\ UNCHANGED <<ledger, tainted>>

-----------------------------------------------------------------------------
(* The routes of controllers/accountController.js *)

\* The password of a body, which may lack one.
BodyPasswords == Passwords \cup {undefined}

\* POST /create up to bcrypt.hash: the duplicate check.
PostCreate(p) ==
    /\ Free(p)
    /\ \E name \in Names, email \in Emails, password \in BodyPasswords :
          LET args == [email |-> email, name |-> name, password |-> password]
          IN IF alreadyExists(users, email)
             THEN /\ last' = Ended("/create", args,
                                   [message |-> "User already exists"],
                                   NoErr, 409, dbFindOne(users, email), users)
                  /\ UNCHANGED req
             ELSE /\ HasRoom
                  /\ req' = [req EXCEPT ![p] =
                               Awaiting("/create", "hashing", args, null)]
                  /\ EndsNone
    /\ UNCHANGED <<users, ledger, tainted>>

\* POST /create: the callback of bcrypt.hash, which inserts and answers.
PostCreateHashed(p) ==
    /\ req[p].pc = "hashing"
    /\ LET a == req[p].args
           h == bcryptHash(a.password)
           o == create(users, a.name, a.email, h.hash)
       IN IF h.err
          THEN /\ last' = Ended("/create", a,
                                [message |-> "Error hashing password"],
                                NoErr, 500, req[p].user, users)
               /\ UNCHANGED users
          ELSE /\ users' = o.users
               /\ last' = Ended("/create", a, o.ret, NoErr, 201, req[p].user,
                                o.users)
    /\ req' = [req EXCEPT ![p] = Idle]
    /\ UNCHANGED <<ledger, tainted>>

\* POST /create when dal.find rejects (the store is down): the catch block
\* answers 500.
PostCreateFindFails(p) ==
    /\ Free(p)
    /\ \E name \in Names, email \in Emails, password \in BodyPasswords :
          LET r == InternalError(users, StoreFault)
          IN last' = Ended("/create",
                           [email |-> email, name |-> name, password |-> password],
                           r.body, r.err, r.status, dbFindOne(users, email), users)
    /\ UNCHANGED <<users, req, ledger, tainted>>

\* POST /create when dal.create rejects inside the callback of bcrypt.hash:
\* the try block was left when bcrypt.hash returned, so nothing catches the
\* rejection of the async callback and no line that answers is reached.
PostCreateInsertFails(p) ==
    /\ req[p].pc = "hashing"
    /\ ~bcryptHash(req[p].args.password).err
    /\ req' = [req EXCEPT ![p] =
                 Awaiting("/create", "unanswered", req[p].args, req[p].user)]
    /\ EndsNone
    /\ UNCHANGED <<users, ledger, tainted>>

PostLogin(p) ==
    /\ Free(p)
    /\ \E email \in Emails, password \in BodyPasswords :
          Answers(p, "/login", [email |-> email, password |-> password],
                  postLogin(users, email, password))
    /\ UNCHANGED <<ledger, tainted>>

PostFind(p) ==
    /\ Free(p)
    /\ \E email \in Emails :
          Answers(p, "/find", [email |-> email], postFind(users, email))
    /\ UNCHANGED <<ledger, tainted>>

PostFindOne(p) ==
    /\ Free(p)
    /\ \E email \in Emails :
          Answers(p, "/findOne", [email |-> email], postFindOne(users, email))
    /\ UNCHANGED <<ledger, tainted>>

PostUpdate(p) ==
    /\ Free(p)
    /\ \E email \in Emails, name \in Names, password \in Passwords :
          Answers(p, "/update",
                  [email |-> email, name |-> name, password |-> password],
                  postUpdate(users, email, name, password))
    /\ UNCHANGED <<ledger, tainted>>

PostDeposit(p) ==
    /\ Free(p)
    /\ \E email \in Emails, amount \in BodyAmounts :
          LET r == postDeposit(users, email, amount)
          IN /\ IncInRange(email, parseFloat(amount))
             /\ Answers(p, "/deposit",
                        [email |-> email, amount |-> parseFloat(amount)], r)
             /\ Credit(email, parseFloat(amount), r.status = 200)

PostWithdraw(p) ==
    /\ Free(p)
    /\ \E email \in Emails, amount \in BodyAmounts :
          WithdrawBegin(p, "/withdraw", email, parseFloat(amount))

PostWithdrawInc(p) == WithdrawEnd(p, "/withdraw")

GetAll(p) ==
    /\ Free(p)
    /\ Answers(p, "/all", NoArgs, getAll(users))
    /\ UNCHANGED <<ledger, tainted>>

-----------------------------------------------------------------------------
(* Specifications *)

\* Requests served concurrently: any slot takes the next step of a store
\* function that inserts or moves money, or of the route that checks before
\* it inserts; these are the calls that can interleave with effect.  The
\* record of the last call is off.
Next ==
    \E p \in Procs :
        \/ DalCreate(p) /\ UNCHANGED <<connVars, errVars, authVars>>
        \/ DalDeposit(p) /\ UNCHANGED <<connVars, errVars, authVars>>
        \/ DalWithdraw(p) /\ UNCHANGED <<connVars, errVars, authVars>>
        \/ DalWithdrawInc(p) /\ UNCHANGED <<connVars, errVars, authVars>>
        \/ PostCreate(p) /\ UNCHANGED <<connVars, errVars, authVars>>
        \/ PostCreateHashed(p) /\ UNCHANGED <<connVars, errVars, authVars>>

Spec == Init /\ [][Next]_vars

\* Every operation, the calls made one after the other: a slot steps only
\* while no other call is in progress.  The last call is on record.
Alone(p) == \A q \in Procs \ {p} : Free(q)

NextSeq ==
    \E p \in Procs :
        \/ Alone(p) /\ DalCreate(p) /\ UNCHANGED <<connVars, errVars, authVars>>
        \/ Alone(p) /\ DalFind(p) /\ UNCHANGED <<connVars, errVars, authVars>>
        \/ Alone(p) /\ DalFindOne(p) /\ UNCHANGED <<connVars, errVars, authVars>>
        \/ Alone(p) /\ DalUpdate(p) /\ UNCHANGED <<connVars, errVars, authVars>>
        \/ Alone(p) /\ DalDeposit(p) /\ UNCHANGED <<connVars, errVars, authVars>>
        \/ Alone(p) /\ DalWithdraw(p) /\ UNCHANGED <<connVars, errVars, authVars>>
        \/ Alone(p) /\ DalWithdrawInc(p) /\ UNCHANGED <<connVars, errVars, authVars>>
        \/ Alone(p) /\ DalAll(p) /\ UNCHANGED <<connVars, errVars, authVars>>
        \/ Alone(p) /\ PostCreate(p) /\ UNCHANGED <<connVars, errVars, authVars>>
        \/ Alone(p) /\ PostCreateHashed(p) /\ UNCHANGED <<connVars, errVars, authVars>>
        \/ Alone(p) /\ PostLogin(p) /\ UNCHANGED <<connVars, errVars, authVars>>
        \/ Alone(p) /\ PostFind(p) /\ UNCHANGED <<connVars, errVars, authVars>>
        \/ Alone(p) /\ PostFindOne(p) /\ UNCHANGED <<connVars, errVars, authVars>>
        \/ Alone(p) /\ PostUpdate(p) /\ UNCHANGED <<connVars, errVars, authVars>>
        \/ Alone(p) /\ PostDeposit(p) /\ UNCHANGED <<connVars, errVars, authVars>>
        \/ Alone(p) /\ PostWithdraw(p) /\ UNCHANGED <<connVars, errVars, authVars>>
        \/ Alone(p) /\ PostWithdrawInc(p) /\ UNCHANGED <<connVars, errVars, authVars>>
        \/ Alone(p) /\ GetAll(p) /\ UNCHANGED <<connVars, errVars, authVars>>

SpecSeq == InitSeq /\ [][NextSeq]_vars

\* Callers of connectToMongo, any number of them before the first
\* connection is there.
NextConn ==
    \E p \in Procs :
        \/ ConnectToMongo(p) /\ UNCHANGED <<storeVars, errVars, authVars>>
        \/ MongoConnected(p) /\ UNCHANGED <<storeVars, errVars, authVars>>
        \/ MongoConnectFails(p) /\ UNCHANGED <<storeVars, errVars, authVars>>

SpecConn == Init /\ [][NextConn]_vars

\* Errors handed to errorHandler.
NextErr ==
    \/ RouteThrows /\ UNCHANGED <<storeVars, connVars, authVars>>
    \/ ErrorHandler /\ UNCHANGED <<storeVars, connVars, authVars>>

SpecErr == Init /\ [][NextErr]_vars

\* Requests to the guarded route, served concurrently.
NextAuth ==
    \E p \in Procs :
        \/ GetSecureData(p) /\ UNCHANGED <<storeVars, connVars, errVars>>
        \/ AuthenticateToken(p) /\ UNCHANGED <<storeVars, connVars, errVars>>
        \/ JwtVerified(p) /\ UNCHANGED <<storeVars, connVars, errVars>>
        \/ SecureData(p) /\ UNCHANGED <<storeVars, connVars, errVars>>

SpecAuth == Init /\ [][NextAuth]_vars

\* POST /create requests served concurrently, by a store whose calls may
\* fail.  The last call is on record.
NextCreate ==
    \E p \in Procs :
        \/ PostCreate(p) /\ UNCHANGED <<connVars, errVars, authVars>>
        \/ PostCreateHashed(p) /\ UNCHANGED <<connVars, errVars, authVars>>
        \/ PostCreateFindFails(p) /\ UNCHANGED <<connVars, errVars, authVars>>
        \/ PostCreateInsertFails(p) /\ UNCHANGED <<connVars, errVars, authVars>>

SpecCreate == InitSeq /\ [][NextCreate]_vars

-----------------------------------------------------------------------------
(* Properties *)

Balance(email) == dbFindOne(users, email).balance

Exists(email) == dbFindOne(users, email) # null

Transfer(op) == last.op = op /\ last.args.amount > 0

\* C1: after any sequence of store calls, each run to its end before the
\* next, with any amounts, no account has a negative balance.
C1_BalanceNeverNegative == \A i \in DOMAIN users : users[i].balance >= 0

\* C2: while only transfers of positive amounts are made, however the
\* concurrent withdrawals interleave, no account has a negative balance.
C2_ConcurrentWithdrawNeverNegative ==
    ~tainted => \A i \in DOMAIN users : users[i].balance >= 0

\* C3: a deposit or a withdraw of an amount <= 0 throws and leaves the
\* collection as it was.
C3_NonPositiveAmountRejected ==
    (last.op \in {"deposit", "withdraw"} /\ last.args.amount <= 0)
        => (last.err # NoErr /\ last.same)

\* C4: a withdraw of a > 0 run alone on an account with balance b: if
\* a <= b it returns the record with balance b - a, which is the balance
\* stored; if a > b it throws "Insufficient funds." and the collection is
\* as it was.
C4_WithdrawAlone ==
    (Transfer("withdraw") /\ last.pre # null) =>
        LET a == last.args.amount
            b == last.pre.balance
        IN IF a <= b
           THEN /\ last.err = NoErr
                /\ last.ret # null
                /\ last.ret.balance = b - a
                /\ last.post = last.ret
                /\ Balance(last.args.email) = b - a
           ELSE /\ last.err = "Insufficient funds."
                /\ last.same
                /\ last.post = last.pre

C4_Witness ==
    /\ Transfer("withdraw")
    /\ last.pre # null
    /\ last.pre.balance = 2
    /\ last.args.amount = 1
    /\ last.err = NoErr
    /\ Balance(last.args.email) = 1

\* C5: a deposit of a > 0 on an account with balance b returns the record
\* with balance b + a, which is the balance stored.
C5_DepositAdds ==
    (Transfer("deposit") /\ last.pre # null) =>
        /\ last.err = NoErr
        /\ last.ret # null
        /\ last.ret.balance = last.pre.balance + last.args.amount
        /\ last.post = last.ret
        /\ Balance(last.args.email) = last.pre.balance + last.args.amount

C5_Witness ==
    /\ Transfer("deposit")
    /\ last.pre # null
    /\ last.pre.balance = 1
    /\ last.args.amount = 1
    /\ last.err = NoErr
    /\ Balance(last.args.email) = 2

\* C6: while only transfers of positive amounts are made, however they
\* interleave, the balance of an account is its starting balance 0 plus
\* the deposits that returned minus the withdrawals that returned.
C6_NoLostUpdate ==
    ~tainted => \A e \in Emails : Exists(e) => Balance(e) = ledger[e]

\* Two withdrawals that both passed the check have both returned.
C6_Witness ==
    /\ ~tainted
    /\ \A p \in Procs : Free(p)
    /\ \E e \in Emails : Exists(e) /\ Balance(e) < 0 /\ ledger[e] = Balance(e)

\* C7: create, find, findOne, all, POST /update and POST /login leave the
\* balance of every account as it was; deposit and withdraw leave every
\* account with another email as it was, and the name, email and password
\* of every account.
C7_BalanceFrame ==
    [][LET op == last'.op
           email == last'.args.email
       IN /\ op \in {"create", "find", "findOne", "all", "/update", "/login"} =>
                \A i \in DOMAIN users :
                    i \in DOMAIN users' /\ users'[i].balance = users[i].balance
          /\ op \in {"deposit", "withdraw"} =>
                /\ DOMAIN users' = DOMAIN users
                /\ \A i \in DOMAIN users :
                      /\ users[i].email # email => users'[i] = users[i]
                      /\ users'[i].name = users[i].name
                      /\ users'[i].email = users[i].email
                      /\ users'[i].password = users[i].password]_vars

\* A deposit has changed its account while an account of another email was
\* in the collection.
C7_Witness ==
    /\ Transfer("deposit")
    /\ ~last.same
    /\ \E i \in DOMAIN users : users[i].email # last.args.email

C9_TransferOnAbsentEmail ==
    ((Transfer("deposit") \/ Transfer("withdraw")) /\ last.pre = null) =>
        /\ last.err = "User not found."
        /\ last.same
        /\ last.added = 0
        /\ ~Exists(last.args.email)

C9_Witness ==
    /\ Transfer("deposit")
    /\ last.pre = null
    /\ Len(users) > 0
    /\ last.err = "User not found."

C11_EmailUnique ==
    \A i, j \in DOMAIN users : users[i].email = users[j].email => i = j

\* C12: after create has returned for an email that had no account, the
\* account stored has balance 0 and the name given; findOne of the email
\* returns it and find of the email returns the sequence of it alone.
C12_CreateThenLookups ==
    (last.op = "create" /\ last.err = NoErr /\ last.pre = null) =>
        LET email == last.args.email
            account == last.post
        IN /\ account # null
           /\ account.balance = 0
           /\ account.name = last.args.name
           /\ account.email = email
           /\ findOne(users, email) = Outcome(users, account, NoErr)
           /\ find(users, email) = Outcome(users, <<account>>, NoErr)

\* create has returned for a new email beside the account of another.
C12_Witness ==
    /\ last.op = "create"
    /\ last.err = NoErr
    /\ last.pre = null
    /\ Len(users) = 2
    /\ find(users, last.args.email).ret = <<last.post>>

\* C13: update on an email that has an account sets the given fields and
\* no other, returns the record as it is afterwards, which a following
\* findOne returns; on an email that has none it throws and adds no record.
C13_UpdateSetsFields ==
    last.op = "update" =>
        IF last.pre # null
        THEN /\ last.err = NoErr
             /\ last.ret = last.post
             /\ findOne(users, last.args.email).ret = last.post
             /\ \A f \in DOMAIN last.pre :
                   last.post[f] = IF f \in DOMAIN last.args.newData
                                  THEN last.args.newData[f]
                                  ELSE last.pre[f]
        ELSE /\ last.err # NoErr
             /\ last.added = 0
             /\ last.same

\* C14: a request to /login, /find, /findOne, /update, /deposit or
\* /withdraw whose email has no account is answered 404 and leaves the
\* collection as it was.
C14_AbsentEmailIs404 ==
    (/\ last.op \in {"/login", "/find", "/findOne", "/update", "/deposit",
                      "/withdraw"}
     /\ last.pre = null)
        => (last.status = 404 /\ last.same)

\* C15: a request to /deposit or /withdraw on an account, with an amount
\* <= 0 or a withdrawal of more than the balance, is answered with a status
\* from 400 to 499 and leaves the balance as it was.
C15_DomainViolationIs4xx ==
    (/\ last.op \in {"/deposit", "/withdraw"}
     /\ last.pre # null
     /\ \/ last.args.amount <= 0
        \/ last.op = "/withdraw" /\ last.args.amount > last.pre.balance)
        => /\ last.status \in 400..499
           /\ last.post.balance = last.pre.balance

\* C16: an error handed to errorHandler before the headers are sent is
\* answered once, with a body of the one field message: 400 and the error's
\* message for a ValidationError, 404 and the error's message for a
\* NotFoundError, 500 and 'Internal Server Error' for any other.
C16_ErrorHandlerAnswers ==
    (thrown # null /\ thrown.handled /\ ~thrown.res.headersSent) =>
        /\ res.sends = 1
        /\ DOMAIN res.body = {"message"}
        /\ IF thrown.err.name = "ValidationError"
           THEN res.statusCode = 400 /\ res.body.message = thrown.err.message
           ELSE IF thrown.err.name = "NotFoundError"
           THEN res.statusCode = 404 /\ res.body.message = thrown.err.message
           ELSE /\ res.statusCode = 500
                /\ res.body.message = "Internal Server Error"

\* C17: errorHandler forwards or responds, never both: with the headers
\* sent it calls next with the error and leaves the response as it was;
\* otherwise it sends a status and a body and does not call next.
C17_ForwardsOrResponds ==
    (thrown # null /\ thrown.handled) =>
        IF thrown.res.headersSent
        THEN /\ forwarded = <<thrown.err>>
             /\ res = thrown.res
        ELSE /\ forwarded = <<>>
             /\ res.headersSent
             /\ res.sends = thrown.res.sends + 1
             /\ res.body # null

\* An error raised after the headers were sent has been forwarded.
C17_Witness ==
    /\ thrown # null
    /\ thrown.handled
    /\ thrown.res.headersSent
    /\ forwarded = <<thrown.err>>
    /\ res.sends = 1

\* C18: no call removes an account: every step keeps each document in its
\* place, adds one document if it ends a create that succeeded and none
\* otherwise, and all returns every document of the collection.
C18_AccountsOnlyGrow ==
    [][LET created == \/ last'.op = "create" /\ last'.err = NoErr
                      \/ last'.op = "/create" /\ last'.status = 201
       IN /\ \A i \in DOMAIN users :
                i \in DOMAIN users' /\ users'[i].email = users[i].email
          /\ Len(users') = Len(users) + (IF created THEN 1 ELSE 0)
          /\ last'.op = "all" => last'.ret = users']_vars

\* all has returned the two accounts created, after one of them was updated
\* or moved money.
C18_Witness ==
    /\ last.op = "all"
    /\ Len(last.ret) = 2
    /\ last.ret = users
    /\ \E i \in DOMAIN users : users[i].balance # 0 \/ users[i].name = "Jane"

\* C19: no POST /create request is left without a response: no handler has
\* run to its end without answering.
C19_CreateAlwaysAnswered ==
    \A p \in Procs : req[p].pc # "unanswered"

\* C20: MongoClient.connect is invoked at most once, and all callers that
\* connectToMongo has returned to were given the same db and client.
C20_ConnectOnce ==
    /\ connects <= 1
    /\ \A p, q \in Procs :
          (conn[p].pc = "returned" /\ conn[q].pc = "returned")
              => conn[p].ret = conn[q].ret

\* The request carries, after the first word of its Authorization header, a
\* token signed for email with the server's key and not expired.
Genuine(authorization, email) ==
    \E scheme \in {"Bearer", "Basic"} :
        authorization = scheme \o " " \o jwtSign(email, secretKey, FALSE)

=============================================================================
